---- MODULE Spec2Model ----
(***************************************************************************)
(* A model of contact_book.py: a menu-driven contact book whose state is   *)
(* three files (contacts.csv, contacts.json, error_log.txt).  The files    *)
(* are modelled by their text, so that the CSV and JSON conversions are    *)
(* the conversions the csv and json modules perform, character by          *)
(* character.  A text is a string; Head, Tail, SubSeq, Len and \o act on   *)
(* it as on a sequence of one-character strings.                           *)
(***************************************************************************)
EXTENDS Naturals, Sequences, FiniteSets, TLC

(***************************************************************************)
(* Bounds of the model.                                                    *)
(***************************************************************************)
\* The session is followed until write_log has been called MaxLog times.
MaxLog == 4

(***************************************************************************)
(* Program constants (contact_book.py:9-12).                               *)
(***************************************************************************)
FIELDNAMES == <<"Name", "Phone", "Email">>

(***************************************************************************)
(* str methods used by the program.                                        *)
(***************************************************************************)
CharAt(s, i) == SubSeq(s, i, i)

\* The characters str.strip() removes (those of them the model's texts use).
Whitespace == {" ", "\t", "\n", "\r"}

RECURSIVE lstrip(_)
lstrip(s) ==
    IF s = "" THEN ""
    ELSE IF Head(s) \in Whitespace THEN lstrip(Tail(s)) ELSE s

RECURSIVE rstrip(_)
rstrip(s) ==
    IF s = "" THEN ""
    ELSE IF CharAt(s, Len(s)) \in Whitespace
         THEN rstrip(SubSeq(s, 1, Len(s) - 1))
         ELSE s

\* A variant of strip that leaves the trailing whitespace.
strip_leading(s) == lstrip(s)

\* str.strip()
strip(s) == rstrip(lstrip(s))

\* str.lower() on one character (the letters the model's texts use).
lower_char(c) ==
    CASE c = "A" -> "a"
      [] c = "B" -> "b"
      [] c = "N" -> "n"
      [] c = "P" -> "p"
      [] c = "E" -> "e"
      [] c = "T" -> "t"
      [] c = "F" -> "f"
      [] OTHER -> c

\* str.lower()
RECURSIVE lower(_)
lower(s) == IF s = "" THEN "" ELSE lower_char(Head(s)) \o lower(Tail(s))

\* `sub in s`
contains(s, sub) ==
    \E i \in 1..(Len(s) + 1) :
        /\ i + Len(sub) - 1 <= Len(s)
        /\ SubSeq(s, i, i + Len(sub) - 1) = sub

\* s[:n]
truncate(s, n) == IF Len(s) <= n THEN s ELSE SubSeq(s, 1, n)

\* c * n
RECURSIVE repeat(_, _)
repeat(c, n) == IF n = 0 THEN "" ELSE c \o repeat(c, n - 1)

\* f"{s:n}": a string padded with blanks on the right to width n
pad(s, n) == IF Len(s) >= n THEN s ELSE s \o repeat(" ", n - Len(s))

\* str(n) of a small natural number
RECURSIVE int_str(_)
int_str(n) ==
    IF n < 10 THEN CharAt("0123456789", n + 1)
    ELSE int_str(n \div 10) \o CharAt("0123456789", (n % 10) + 1)

(***************************************************************************)
(* csv.DictWriter (excel dialect: delimiter ",", quotechar '"',            *)
(* doublequote, lineterminator "\r\n", QUOTE_MINIMAL).                     *)
(***************************************************************************)
\* QUOTE_MINIMAL quotes a field that holds the delimiter, the quote
\* character or a character of the line terminator.
csv_needs_quote(s) ==
    \E i \in 1..Len(s) : CharAt(s, i) \in {",", "\"", "\r", "\n"}

RECURSIVE csv_double_quotes(_)
csv_double_quotes(s) ==
    IF s = "" THEN ""
    ELSE (IF Head(s) = "\"" THEN "\"\"" ELSE Head(s))
             \o csv_double_quotes(Tail(s))

csv_field(s) ==
    IF csv_needs_quote(s) THEN "\"" \o csv_double_quotes(s) \o "\"" ELSE s

\* writer.writerow of a sequence of fields
RECURSIVE csv_join(_)
csv_join(fields) ==
    IF Len(fields) = 0 THEN ""
    ELSE IF Len(fields) = 1 THEN csv_field(fields[1])
    ELSE csv_field(fields[1]) \o "," \o csv_join(Tail(fields))

csv_writerow(fields) == csv_join(fields) \o "\r\n"

\* DictWriter.writeheader
csv_writeheader == csv_writerow(FIELDNAMES)

\* DictWriter.writerows: each dict's values in FIELDNAMES order
RECURSIVE csv_writerows(_)
csv_writerows(contacts) ==
    IF Len(contacts) = 0 THEN ""
    ELSE csv_writerow(<<contacts[1].Name, contacts[1].Phone, contacts[1].Email>>)
             \o csv_writerows(Tail(contacts))

(***************************************************************************)
(* Reading: open(..., "r") without newline="" translates "\r\n" and "\r"   *)
(* to "\n" (universal newlines); csv.reader then runs its state machine    *)
(* over the lines.                                                         *)
(***************************************************************************)
RECURSIVE universal_newlines(_)
universal_newlines(s) ==
    IF s = "" THEN ""
    ELSE IF Head(s) = "\r"
         THEN IF Len(s) >= 2 /\ CharAt(s, 2) = "\n"
              THEN "\n" \o universal_newlines(SubSeq(s, 3, Len(s)))
              ELSE "\n" \o universal_newlines(Tail(s))
         ELSE Head(s) \o universal_newlines(Tail(s))

\* The reader's state machine (_csv.c parse_process_char) over the whole
\* translated text.  st is the parser state, field the field being read,
\* row the fields of the record being read, rows the records read so far.
\* Every line of the text ends in "\n", so a "\n" outside quotes ends the
\* record; a record is also ended by the end of the text.
RECURSIVE csv_parse(_, _, _, _, _)
csv_parse(s, st, field, row, rows) ==
    IF s = "" THEN
        IF st = "START_RECORD" THEN rows
        ELSE Append(rows, Append(row, field))
    ELSE
        LET c == Head(s)
            r == Tail(s)
        IN  CASE st = "START_RECORD" ->
                    IF c = "\n" THEN csv_parse(r, "START_RECORD", "", <<>>, Append(rows, <<>>))
                    ELSE IF c = "\"" THEN csv_parse(r, "IN_QUOTED_FIELD", "", <<>>, rows)
                    ELSE IF c = "," THEN csv_parse(r, "START_FIELD", "", <<"">>, rows)
                    ELSE csv_parse(r, "IN_FIELD", c, <<>>, rows)
              [] st = "START_FIELD" ->
                    IF c = "\n" THEN csv_parse(r, "START_RECORD", "", <<>>, Append(rows, Append(row, "")))
                    ELSE IF c = "\"" THEN csv_parse(r, "IN_QUOTED_FIELD", "", row, rows)
                    ELSE IF c = "," THEN csv_parse(r, "START_FIELD", "", Append(row, ""), rows)
                    ELSE csv_parse(r, "IN_FIELD", c, row, rows)
              [] st = "IN_FIELD" ->
                    IF c = "\n" THEN csv_parse(r, "START_RECORD", "", <<>>, Append(rows, Append(row, field)))
                    ELSE IF c = "," THEN csv_parse(r, "START_FIELD", "", Append(row, field), rows)
                    ELSE csv_parse(r, "IN_FIELD", field \o c, row, rows)
              [] st = "IN_QUOTED_FIELD" ->
                    IF c = "\"" THEN csv_parse(r, "QUOTE_IN_QUOTED_FIELD", field, row, rows)
                    ELSE csv_parse(r, "IN_QUOTED_FIELD", field \o c, row, rows)
              [] st = "QUOTE_IN_QUOTED_FIELD" ->
                    IF c = "\"" THEN csv_parse(r, "IN_QUOTED_FIELD", field \o c, row, rows)
                    ELSE IF c = "," THEN csv_parse(r, "START_FIELD", "", Append(row, field), rows)
                    ELSE IF c = "\n" THEN csv_parse(r, "START_RECORD", "", <<>>, Append(rows, Append(row, field)))
                    ELSE csv_parse(r, "IN_FIELD", field \o c, row, rows)

csv_reader(text) == csv_parse(universal_newlines(text), "START_RECORD", "", <<>>, <<>>)

\* csv.DictReader: the first row names the fields, empty rows are skipped,
\* every other row becomes a dict.  The program only ever reads files its
\* own DictWriter wrote, whose rows hold the three FIELDNAMES columns.
RECURSIVE csv_dicts(_)
csv_dicts(rows) ==
    IF Len(rows) = 0 THEN <<>>
    ELSE IF Len(rows[1]) = 0 THEN csv_dicts(Tail(rows))
    ELSE <<[Name |-> rows[1][1], Phone |-> rows[1][2], Email |-> rows[1][3]]>>
             \o csv_dicts(Tail(rows))

csv_DictReader(text) ==
    LET rows == csv_reader(text)
    IN  IF Len(rows) = 0 THEN <<>> ELSE csv_dicts(Tail(rows))

(***************************************************************************)
(* json.dump(contacts, f, indent=2): a list of dicts whose keys and values *)
(* are strings.                                                            *)
(***************************************************************************)
\* json.encoder.py_encode_basestring_ascii on one character (ESCAPE_DCT)
json_escape_char(c) ==
    CASE c = "\"" -> "\\\""
      [] c = "\\" -> "\\\\"
      [] c = "\n" -> "\\n"
      [] c = "\r" -> "\\r"
      [] c = "\t" -> "\\t"
      [] OTHER -> c

RECURSIVE json_escape(_)
json_escape(s) ==
    IF s = "" THEN "" ELSE json_escape_char(Head(s)) \o json_escape(Tail(s))

json_string(s) == "\"" \o json_escape(s) \o "\""

\* One dict at indent level 1: its members at level 2, in key order
\* (DictReader builds each dict in FIELDNAMES order).
json_dump_dict(c) ==
    "{\n    " \o json_string("Name") \o ": " \o json_string(c.Name)
        \o ",\n    " \o json_string("Phone") \o ": " \o json_string(c.Phone)
        \o ",\n    " \o json_string("Email") \o ": " \o json_string(c.Email)
        \o "\n  }"

RECURSIVE json_dump_items(_)
json_dump_items(contacts) ==
    IF Len(contacts) = 1 THEN json_dump_dict(contacts[1])
    ELSE json_dump_dict(contacts[1]) \o ",\n  " \o json_dump_items(Tail(contacts))

json_dump(contacts) ==
    IF Len(contacts) = 0 THEN "[]"
    ELSE "[\n  " \o json_dump_items(contacts) \o "\n]"

(***************************************************************************)
(* json.load: the decoder of json.decoder / json.scanner.  A parsed value  *)
(* is a record [t, s, kids]: t its type, s the text of a string or number, *)
(* kids the items of a list or the [k, v] members of a dict.  A parse      *)
(* result is [ok, val, rest]: rest is the text after the value.            *)
(***************************************************************************)
JsonWhitespace == {" ", "\t", "\n", "\r"}
Digits == {"0", "1", "2", "3", "4", "5", "6", "7", "8", "9"}

JsonValue(t, s, kids) == [t |-> t, s |-> s, kids |-> kids]
JsonNull == JsonValue("null", "", <<>>)
JsonFail == [ok |-> FALSE, val |-> JsonNull, rest |-> ""]
JsonOk(v, rest) == [ok |-> TRUE, val |-> v, rest |-> rest]

startswith(s, p) == Len(s) >= Len(p) /\ SubSeq(s, 1, Len(p)) = p
drop(s, n) == SubSeq(s, n + 1, Len(s))

\* WHITESPACE.match(s, end).end()
RECURSIVE json_skip_ws(_)
json_skip_ws(s) ==
    IF s # "" /\ Head(s) \in JsonWhitespace THEN json_skip_ws(Tail(s)) ELSE s

\* json.decoder.py_scanstring after the opening quote (strict: a control
\* character inside a string is an error).  Of the escapes, \uXXXX is left
\* out: no document of the model uses it.
RECURSIVE json_scanstring(_, _)
json_scanstring(s, acc) ==
    IF s = "" THEN JsonFail
    ELSE LET c == Head(s) IN
         IF c = "\"" THEN JsonOk(JsonValue("str", acc, <<>>), Tail(s))
         ELSE IF c \in {"\n", "\r", "\t"} THEN JsonFail
         ELSE IF c = "\\" THEN
              IF Len(s) < 2 THEN JsonFail
              ELSE LET e == CharAt(s, 2) IN
                   CASE e = "\"" -> json_scanstring(drop(s, 2), acc \o "\"")
                     [] e = "\\" -> json_scanstring(drop(s, 2), acc \o "\\")
                     [] e = "/"  -> json_scanstring(drop(s, 2), acc \o "/")
                     [] e = "n"  -> json_scanstring(drop(s, 2), acc \o "\n")
                     [] e = "r"  -> json_scanstring(drop(s, 2), acc \o "\r")
                     [] e = "t"  -> json_scanstring(drop(s, 2), acc \o "\t")
                     [] OTHER    -> JsonFail
         ELSE json_scanstring(Tail(s), acc \o c)

\* NUMBER_RE, integer part only: -?(0|[1-9]\d*)
RECURSIVE json_digits(_, _)
json_digits(s, acc) ==
    IF s # "" /\ Head(s) \in Digits THEN json_digits(Tail(s), acc \o Head(s))
    ELSE JsonOk(JsonValue("int", acc, <<>>), s)

json_number(s) ==
    LET neg  == startswith(s, "-")
        body == IF neg THEN Tail(s) ELSE s
        sign == IF neg THEN "-" ELSE ""
    IN  IF body = "" \/ Head(body) \notin Digits THEN JsonFail
        ELSE IF Head(body) = "0" THEN JsonOk(JsonValue("int", sign \o "0", <<>>), Tail(body))
        ELSE json_digits(body, sign)

RECURSIVE json_scan_once(_), json_array(_, _), json_object(_, _)

\* json.scanner.py_make_scanner._scan_once
json_scan_once(s) ==
    IF s = "" THEN JsonFail
    ELSE LET c == Head(s) IN
         CASE c = "\"" -> json_scanstring(Tail(s), "")
           [] c = "{"  -> json_object(json_skip_ws(Tail(s)), <<>>)
           [] c = "["  -> json_array(json_skip_ws(Tail(s)), <<>>)
           [] startswith(s, "null")  -> JsonOk(JsonNull, drop(s, 4))
           [] startswith(s, "true")  -> JsonOk(JsonValue("bool", "True", <<>>), drop(s, 4))
           [] startswith(s, "false") -> JsonOk(JsonValue("bool", "False", <<>>), drop(s, 5))
           [] OTHER -> json_number(s)

\* json.decoder.JSONArray after "[" and whitespace; items are those read
json_array(s, items) ==
    IF items = <<>> /\ startswith(s, "]") THEN JsonOk(JsonValue("list", "", <<>>), Tail(s))
    ELSE LET v == json_scan_once(s) IN
         IF ~v.ok THEN JsonFail
         ELSE LET t == json_skip_ws(v.rest) IN
              IF startswith(t, "]")
                  THEN JsonOk(JsonValue("list", "", Append(items, v.val)), Tail(t))
              ELSE IF startswith(t, ",")
                  THEN json_array(json_skip_ws(Tail(t)), Append(items, v.val))
              ELSE JsonFail

\* json.decoder.JSONObject after "{" and whitespace; members are those read
json_object(s, members) ==
    IF members = <<>> /\ startswith(s, "}") THEN JsonOk(JsonValue("dict", "", <<>>), Tail(s))
    ELSE IF ~startswith(s, "\"") THEN JsonFail
    ELSE LET k == json_scanstring(Tail(s), "") IN
         IF ~k.ok THEN JsonFail
         ELSE LET t == json_skip_ws(k.rest) IN
              IF ~startswith(t, ":") THEN JsonFail
              ELSE LET v == json_scan_once(json_skip_ws(Tail(t))) IN
                   IF ~v.ok THEN JsonFail
                   ELSE LET u  == json_skip_ws(v.rest)
                            ms == Append(members, [k |-> k.val.s, v |-> v.val])
                        IN  IF startswith(u, "}")
                                THEN JsonOk(JsonValue("dict", "", ms), Tail(u))
                            ELSE IF startswith(u, ",")
                                THEN json_object(json_skip_ws(Tail(u)), ms)
                            ELSE JsonFail

\* json.load / JSONDecoder.decode: one value, then only whitespace
\* ("Extra data" otherwise).
json_load(text) ==
    LET v == json_scan_once(json_skip_ws(text)) IN
    IF v.ok /\ json_skip_ws(v.rest) = "" THEN v ELSE JsonFail

\* dict.get(key, ""): the last member with that key, "" when there is none
RECURSIVE dict_get(_, _)
dict_get(members, key) ==
    IF Len(members) = 0 THEN JsonValue("str", "", <<>>)
    ELSE IF members[Len(members)].k = key THEN members[Len(members)].v
    ELSE dict_get(SubSeq(members, 1, Len(members) - 1), key)

\* str(v) of a parsed scalar: a string is itself, None is "None", a bool
\* "True" or "False", an int its digits ("-0" is the int 0).
py_str(v) ==
    CASE v.t = "str"  -> v.s
      [] v.t = "null" -> "None"
      [] v.t = "bool" -> v.s
      [] v.t = "int"  -> IF v.s = "-0" THEN "0" ELSE v.s

(***************************************************************************)
(* The state: the three files, the position of the process, the            *)
(* environment, and what the last menu choice read and printed.            *)
(***************************************************************************)
VARIABLES
    csvFile,    \* contacts.csv: [exists, text]
    jsonFile,   \* contacts.json: [exists, text]
    logCalls,   \* the calls of write_log, oldest first, each
                \* [level, msg, written]: written tells whether the line
                \* reached error_log.txt (its time stamp is left out)
    pc,         \* "start", "menu" (at the prompt), "exited", "crashed"
    env,        \* "ok", "store_denied" (opening contacts.csv fails),
                \* "log_denied" (opening error_log.txt fails)
    lastOp,     \* the last choice and the lines typed at its prompts
    stdout      \* what the last choice's handler printed

vars == <<csvFile, jsonFile, logCalls, pc, env, lastOp, stdout>>

\* error_log.txt: its lines, oldest first
logFile == SelectSeq(logCalls, LAMBDA l : l.written)

NoFile == [exists |-> FALSE, text |-> ""]
File(text) == [exists |-> TRUE, text |-> text]
Op(choice, name, phone, email) ==
    [choice |-> choice, name |-> name, phone |-> phone, email |-> email]
Contact(name, phone, email) == [Name |-> name, Phone |-> phone, Email |-> email]

(***************************************************************************)
(* What the user types and which contacts.json a session may start with.   *)
(***************************************************************************)
\* Lines typed at the three prompts of add: <<name, phone, email>>.
AddInputs ==
    { <<" b", "1", "x ">>, <<"B ", "1", "x">>, <<"a,\"b", "1", "x">>,
      <<" ", "1", "x">>, <<"b", "", "x">>, <<"b", "1", " ">> }
\* Lines typed at the name prompt of update and delete.
NameInputs == {"B ", "a,\"b"}
\* Lines typed at the "leave blank to keep" prompts of update:
\* <<new phone, new email>>.
NewInputs == { <<"", "y">>, <<" 2", " ">> }
\* Lines typed at the search prompt.
TermInputs == {"", " A,"}
\* Lines typed at the menu prompt that name no choice.
InvalidChoices == {"9"}

\* A single object, not a list.
DocObject == "{\"Name\": \"b\", \"Phone\": \"1\", \"Email\": \"x\"}"
\* A list whose second element is not an object.
DocMixed == "[{\"Name\": \"b\", \"Phone\": \"1\", \"Email\": \"x\"}, 7]"
\* A document cut short.
DocTruncated == "[{\"Name\": \"b\""
\* A list of objects with a padded name, a number and an embedded carriage
\* return.
DocLoose ==
    "[{\"Name\": \" b\", \"Phone\": 1, \"Email\": \"x\\ry\"}, {\"Name\": \"B\", \"Phone\": \"2\", \"Email\": \"x\"}]"
\* A list of one object with a missing key and a null.
DocPartial == "[{\"Name\": \"B\", \"Email\": null}]"
ForeignDocs == {DocObject, DocMixed, DocTruncated, DocLoose, DocPartial}

(***************************************************************************)
(* Storage and logging.                                                    *)
(***************************************************************************)
StoreDenied == env = "store_denied"

\* write_log: the line is appended to the file unless opening or writing
\* it fails; the failure is swallowed (except Exception: pass).
write_log(calls, level, msg) ==
    Append(calls, [level |-> level, msg |-> msg, written |-> env # "log_denied"])

\* ensure_csv_exists: the file after the call
ensure_csv_exists(f) == IF f.exists THEN f ELSE File(csv_writeheader)

\* read_contacts: the list it returns
read_contacts(f) == csv_DictReader(ensure_csv_exists(f).text)

\* write_contacts: the file after the call
write_contacts(contacts) == File(csv_writeheader \o csv_writerows(contacts))

\* The session is followed while write_log was called fewer than MaxLog
\* times.
Bounded == Len(logCalls) < MaxLog

\* An exception that leaves menu(): the process dies with a traceback.
Crash(op) ==
    /\ pc' = "crashed"
    /\ lastOp' = op
    /\ stdout' = <<>>
    /\ UNCHANGED <<csvFile, jsonFile, logCalls, env>>

\* A handler that returns having printed `lines` and changed no file.
Return(op, lines) ==
    /\ lastOp' = op
    /\ stdout' = lines
    /\ UNCHANGED <<csvFile, jsonFile, logCalls, pc, env>>

(***************************************************************************)
(* Process start.                                                          *)
(***************************************************************************)
NoOp == Op("", "", "", "")

Init ==
    /\ csvFile = NoFile
    /\ jsonFile \in {NoFile} \cup {File(d) : d \in ForeignDocs}
    /\ logCalls = <<>>
    /\ pc = "start"
    /\ env = "ok"
    /\ lastOp = NoOp
    /\ stdout = <<>>

\* if __name__ == "__main__": up to the call of menu()
Start ==
    /\ pc = "start"
    /\ csvFile' = ensure_csv_exists(csvFile)
    /\ logCalls' = write_log(logCalls, "INFO", "Program started")
    /\ pc' = "menu"
    /\ UNCHANGED <<jsonFile, env, lastOp, stdout>>

(***************************************************************************)
(* The handlers.                                                           *)
(***************************************************************************)
\* A variant of add_invalid that rejects only an add with every field blank.
add_invalid_all(name, phone, email) == name = "" /\ phone = "" /\ email = ""

\* add_contact's test of its three fields
add_invalid(name, phone, email) == name = "" \/ phone = "" \/ email = ""

add_contact(rawName, rawPhone, rawEmail) ==
    LET op    == Op("1", rawName, rawPhone, rawEmail)
        name  == strip(rawName)
        phone == strip(rawPhone)
        email == strip(rawEmail)
    IN  /\ pc = "menu" /\ Bounded
        /\ IF add_invalid(name, phone, email)
               THEN Return(op, <<"All fields are required.">>)
           ELSE IF StoreDenied THEN Crash(op)
           ELSE /\ csvFile' = write_contacts(
                        Append(read_contacts(csvFile), Contact(name, phone, email)))
                /\ logCalls' = write_log(logCalls, "INFO", "Added contact: " \o name)
                /\ lastOp' = op
                /\ stdout' = <<"Contact added.">>
                /\ UNCHANGED <<jsonFile, pc, env>>

list_row(c) ==
    pad(truncate(c.Name, 29), 30) \o " " \o pad(truncate(c.Phone, 19), 20)
        \o " " \o pad(truncate(c.Email, 29), 30)

list_contacts ==
    LET op == Op("2", "", "", "")
        contacts == read_contacts(csvFile)
    IN  /\ pc = "menu" /\ Bounded
        /\ IF StoreDenied THEN Crash(op)
           ELSE IF Len(contacts) = 0 THEN Return(op, <<"No contacts found.">>)
           ELSE Return(op,
                    <<"\n" \o pad("Name", 30) \o " " \o pad("Phone", 20) \o " " \o pad("Email", 30),
                      repeat("-", 80)>>
                    \o [i \in 1..Len(contacts) |-> list_row(contacts[i])]
                    \o <<"\nTotal: " \o int_str(Len(contacts))>>)

search_line(c) ==
    "\nName: " \o c.Name \o "\nPhone: " \o c.Phone \o "\nEmail: " \o c.Email

\* A variant of search_matches that compares whole names.
search_matches_exact(c, term) == lower(c.Name) = term

\* search_contact's filter
search_matches(c, term) == contains(lower(c.Name), term)

search_contact(rawTerm) ==
    LET op    == Op("3", rawTerm, "", "")
        term  == lower(strip(rawTerm))
        found == SelectSeq(read_contacts(csvFile),
                           LAMBDA c : search_matches(c, term))
    IN  /\ pc = "menu" /\ Bounded
        /\ IF StoreDenied THEN Crash(op)
           ELSE IF Len(found) = 0 THEN Return(op, <<"No matches.">>)
           ELSE Return(op, [i \in 1..Len(found) |-> search_line(found[i])])

\* The contacts of update_contact's loop that match the name.
update_matches(contacts, name) ==
    {i \in 1..Len(contacts) : lower(contacts[i].Name) = lower(name)}

\* A variant of update_target that takes the last match.
update_target_last(contacts, name) ==
    CHOOSE i \in update_matches(contacts, name) :
        \A j \in update_matches(contacts, name) : i >= j

\* The contact the loop stops at: the first match.
update_target(contacts, name) ==
    CHOOSE i \in update_matches(contacts, name) :
        \A j \in update_matches(contacts, name) : i <= j

\* A variant of update_field that stores whatever was typed.
update_field_overwrite(old, new) == new

\* "leave blank to keep": the field after the prompt
update_field(old, new) == IF new # "" THEN new ELSE old

update_contact(rawName, rawPhone, rawEmail) ==
    LET name      == strip(rawName)
        contacts  == read_contacts(csvFile)
        found     == update_matches(contacts, name) # {}
        i         == update_target(contacts, name)
        new_phone == strip(rawPhone)
        new_email == strip(rawEmail)
        updated   == [contacts EXCEPT
                        ![i].Phone = update_field(@, new_phone),
                        ![i].Email = update_field(@, new_email)]
    IN  /\ pc = "menu" /\ Bounded
        /\ IF StoreDenied THEN Crash(Op("4", rawName, "", ""))
           ELSE IF ~found
               \* the phone and email prompts are not reached
               THEN Return(Op("4", rawName, "", ""), <<"Contact not found.">>)
           ELSE /\ csvFile' = write_contacts(updated)
                /\ logCalls' = write_log(logCalls, "INFO", "Updated contact: " \o name)
                /\ lastOp' = Op("4", rawName, rawPhone, rawEmail)
                /\ stdout' = <<"Current phone: " \o contacts[i].Phone, "Contact updated.">>
                /\ UNCHANGED <<jsonFile, pc, env>>

\* A variant of delete_keeps that compares names case-sensitively.
delete_keeps_cased(c, name) == c.Name # name

\* delete_contact's filter: the contacts it keeps
delete_keeps(c, name) == lower(c.Name) # lower(name)

\* A variant of delete_found that never reports "not found".
delete_found_always(contacts, new_contacts) == TRUE

\* delete_contact's test that something was removed
delete_found(contacts, new_contacts) == Len(new_contacts) # Len(contacts)

delete_contact(rawName) ==
    LET op   == Op("5", rawName, "", "")
        name == strip(rawName)
        contacts == read_contacts(csvFile)
        new_contacts == SelectSeq(contacts, LAMBDA c : delete_keeps(c, name))
    IN  /\ pc = "menu" /\ Bounded
        /\ IF StoreDenied THEN Crash(op)
           ELSE IF ~delete_found(contacts, new_contacts)
               THEN Return(op, <<"Contact not found.">>)
           ELSE /\ csvFile' = write_contacts(new_contacts)
                /\ logCalls' = write_log(logCalls, "INFO", "Deleted contact: " \o name)
                /\ lastOp' = op
                /\ stdout' = <<"Contact deleted.">>
                /\ UNCHANGED <<jsonFile, pc, env>>

export_json ==
    LET op == Op("6", "", "", "")
        contacts == read_contacts(csvFile)
        n == int_str(Len(contacts))
    IN  /\ pc = "menu" /\ Bounded
        /\ IF StoreDenied THEN Crash(op)
           ELSE IF Len(contacts) = 0 THEN Return(op, <<"No contacts to export.">>)
           ELSE /\ jsonFile' = File(json_dump(contacts))
                /\ logCalls' = write_log(logCalls, "INFO", "Exported " \o n \o " contacts to JSON.")
                /\ lastOp' = op
                /\ stdout' = <<"Exported " \o n \o " contacts to contacts.json.">>
                /\ UNCHANGED <<csvFile, pc, env>>

\* A variant of import_clean that reads the phone into the email and the
\* email into the phone.
import_clean_swapped(c) ==
    Contact(strip(py_str(dict_get(c.kids, "Name"))),
            strip(py_str(dict_get(c.kids, "Email"))),
            strip(py_str(dict_get(c.kids, "Phone"))))

\* The body of import_json's for loop on one element.
import_clean(c) ==
    Contact(strip(py_str(dict_get(c.kids, "Name"))),
            strip(py_str(dict_get(c.kids, "Phone"))),
            strip(py_str(dict_get(c.kids, "Email"))))

\* A variant of import_error in which a non-object element raises nothing.
import_error_toplevel(doc) ==
    IF ~doc.ok THEN "JSONDecodeError"
    ELSE IF doc.val.t # "list" THEN "JSON must be a list of objects."
    ELSE IF StoreDenied THEN "Permission denied: 'contacts.csv'"
    ELSE ""

\* What import_json's try block raises, "" when it raises nothing.  The
\* texts of the decoder's and the operating system's errors are shortened.
import_error(doc) ==
    IF ~doc.ok THEN "JSONDecodeError"
    ELSE IF doc.val.t # "list" THEN "JSON must be a list of objects."
    ELSE IF \E i \in 1..Len(doc.val.kids) : doc.val.kids[i].t # "dict"
        THEN "object has no attribute 'get'"
    ELSE IF StoreDenied THEN "Permission denied: 'contacts.csv'"
    ELSE ""

import_json ==
    LET op  == Op("7", "", "", "")
        doc == json_load(jsonFile.text)
        e   == import_error(doc)
        cleaned == [i \in 1..Len(doc.val.kids) |-> import_clean(doc.val.kids[i])]
        n   == int_str(Len(cleaned))
    IN  /\ pc = "menu" /\ Bounded
        /\ IF ~jsonFile.exists THEN Return(op, <<"JSON file not found.">>)
           ELSE IF e # ""
               THEN /\ logCalls' = write_log(logCalls, "ERROR", "Import JSON failed: " \o e)
                    /\ lastOp' = op
                    /\ stdout' = <<"Failed to import JSON: " \o e>>
                    /\ UNCHANGED <<csvFile, jsonFile, pc, env>>
           ELSE /\ csvFile' = write_contacts(cleaned)
                /\ logCalls' = write_log(logCalls, "INFO", "Imported " \o n \o " contacts from JSON.")
                /\ lastOp' = op
                /\ stdout' = <<"Imported " \o n \o " contacts from contacts.json.">>
                /\ UNCHANGED <<jsonFile, pc, env>>

\* menu(), choice "8"
exit_menu ==
    /\ pc = "menu" /\ Bounded
    /\ logCalls' = write_log(logCalls, "INFO", "Program exited")
    /\ pc' = "exited"
    /\ lastOp' = Op("8", "", "", "")
    /\ stdout' = <<"Goodbye.">>
    /\ UNCHANGED <<csvFile, jsonFile, env>>

\* menu(), the else branch
invalid_choice(rawChoice) ==
    /\ pc = "menu" /\ Bounded
    /\ strip(rawChoice) \notin {"1", "2", "3", "4", "5", "6", "7", "8"}
    /\ Return(Op(strip(rawChoice), "", "", ""), <<"Invalid choice. Enter a number 1-8.">>)

\* The environment: from now on opening contacts.csv (e = "store_denied")
\* or error_log.txt (e = "log_denied") fails.
EnvFault(e) ==
    /\ pc = "menu" /\ env = "ok"
    /\ env' = e
    /\ UNCHANGED <<csvFile, jsonFile, logCalls, pc, lastOp, stdout>>

\* menu(): one turn of the loop
menu ==
    \/ \E a \in AddInputs : add_contact(a[1], a[2], a[3])
    \/ list_contacts
    \/ \E t \in TermInputs : search_contact(t)
    \/ \E n \in NameInputs, u \in NewInputs : update_contact(n, u[1], u[2])
    \/ \E n \in NameInputs : delete_contact(n)
    \/ export_json
    \/ import_json
    \/ exit_menu
    \/ \E c \in InvalidChoices : invalid_choice(c)

Next == Start \/ menu

Spec == Init /\ [][Next]_vars

\* The same program in an environment where the files can become
\* unreachable.
NextFault == Next \/ \E e \in {"store_denied", "log_denied"} : EnvFault(e)

SpecFault == Init /\ [][NextFault]_vars

(***************************************************************************)
(* The properties.  A step of the menu is told from the state after it:    *)
(* lastOp' holds the choice and the lines typed, and pc = "menu" before.   *)
(***************************************************************************)
\* The store as read_contacts returns it.
Contacts == read_contacts(csvFile)

\* The store as read_contacts returns it after the step.
After == read_contacts(csvFile')

\* The handler of `choice` has just run.
Handled(choice) == pc = "menu" /\ lastOp'.choice = choice

\* A text of nothing but whitespace.
IsBlank(s) == \A i \in 1..Len(s) : CharAt(s, i) \in Whitespace

Slices(s) == {SubSeq(s, i, j) : i \in 1..(Len(s) + 1), j \in 0..Len(s)}

\* t is s without its leading and trailing whitespace.
IsTrimOf(t, s) ==
    \E i \in 1..(Len(s) + 1), j \in 0..Len(s) :
        /\ i <= j + 1
        /\ t = SubSeq(s, i, j)
        /\ IsBlank(SubSeq(s, 1, i - 1))
        /\ IsBlank(SubSeq(s, j + 1, Len(s)))
        /\ t # "" => ~IsBlank(CharAt(t, 1)) /\ ~IsBlank(CharAt(t, Len(t)))

Trimmed(s) == CHOOSE t \in Slices(s) : IsTrimOf(t, s)

\* t occurs in s.
IsSubstring(t, s) == t \in Slices(s)

\* Case-insensitive whole-string equality of two names.
SameName(a, b) == lower(a) = lower(b)

\* The positions of the contacts named n.
MatchesIn(contacts, n) ==
    {i \in 1..Len(contacts) : SameName(contacts[i].Name, n)}

\* The positions of the stored contacts named n.
Matches(n) == LET contacts == Contacts IN MatchesIn(contacts, n)

First(S) == CHOOSE i \in S : \A j \in S : i <= j

NoBlankFieldIn(contacts) ==
    \A i \in 1..Len(contacts) :
        /\ ~IsBlank(contacts[i].Name)
        /\ ~IsBlank(contacts[i].Phone)
        /\ ~IsBlank(contacts[i].Email)

NoBlankField(cs) == LET contacts == cs IN NoBlankFieldIn(contacts)

AllTyped(op) == ~IsBlank(op.name) /\ ~IsBlank(op.phone) /\ ~IsBlank(op.email)

LastLine(log) == log[Len(log)]

\* C1: an add whose name, phone and email are all non-blank after trimming
\* leaves the store, read back, equal to the previous contacts in their
\* order followed by one contact carrying the trimmed name, phone and
\* email.
C1_AddAppends ==
    [][ (Handled("1") /\ AllTyped(lastOp'))
        => After = Append(Contacts,
                              Contact(Trimmed(lastOp'.name),
                                      Trimmed(lastOp'.phone),
                                      Trimmed(lastOp'.email))) ]_vars

\* An add of a padded name to a store that held a contact.
C1_Witness ==
    /\ lastOp.choice = "1" /\ AllTyped(lastOp)
    /\ lastOp.name # Trimmed(lastOp.name)
    /\ Len(Contacts) >= 2
    /\ LastLine(Contacts) =
           Contact(Trimmed(lastOp.name), Trimmed(lastOp.phone), Trimmed(lastOp.email))

\* C2: an add with a name, phone or email that is blank after trimming
\* changes neither the store file nor the log.
C2_BlankAddRejected ==
    [][ (Handled("1") /\ ~AllTyped(lastOp'))
        => csvFile' = csvFile /\ logFile' = logFile ]_vars

\* A rejected add whose email alone is blank, on a store that holds a
\* contact.
C2_Witness ==
    /\ lastOp.choice = "1"
    /\ ~IsBlank(lastOp.name) /\ ~IsBlank(lastOp.phone) /\ IsBlank(lastOp.email)
    /\ stdout = <<"All fields are required.">>
    /\ Contacts # <<>>

\* C3: an update of name n changes only the first contact whose name
\* equals n case-insensitively: a blank new phone keeps its phone, a blank
\* new email keeps its email, a non-blank one replaces the field by its
\* trimmed text; its name, every other contact (later ones of the same name
\* too), the number and the order of the contacts are unchanged.
C3_UpdateFirstMatchOnly ==
    [][ Handled("4")
        => LET before  == Contacts
               n       == Trimmed(lastOp'.name)
               matches == MatchesIn(before, n)
               k       == First(matches)
               phone   == IF IsBlank(lastOp'.phone) THEN before[k].Phone
                          ELSE Trimmed(lastOp'.phone)
               email   == IF IsBlank(lastOp'.email) THEN before[k].Email
                          ELSE Trimmed(lastOp'.email)
           IN  matches # {}
                   => After = [before EXCEPT ![k] = Contact(@.Name, phone, email)] ]_vars

\* An update with a blank phone and a new email, of a name two contacts
\* bear: the first has the new email, a later one does not.
C3_Witness ==
    /\ lastOp.choice = "4" /\ IsBlank(lastOp.phone) /\ ~IsBlank(lastOp.email)
    /\ LET contacts == Contacts
           matches  == MatchesIn(contacts, Trimmed(lastOp.name))
       IN  /\ Cardinality(matches) >= 2
           /\ contacts[First(matches)].Email = Trimmed(lastOp.email)
           /\ \E i \in matches : contacts[i].Email # Trimmed(lastOp.email)

\* C4: a delete of name n leaves exactly the contacts whose name does not
\* equal n case-insensitively, in their previous order and unchanged.
C4_DeleteRemovesAllMatches ==
    [][ Handled("5")
        => LET before == Contacts
               n      == Trimmed(lastOp'.name)
           IN  After = SelectSeq(before, LAMBDA c : ~SameName(c.Name, n)) ]_vars

\* A delete of "B" from a store that held "b" and "B": both are gone.
C4_Witness ==
    /\ lastOp.choice = "5" /\ Trimmed(lastOp.name) = "B"
    /\ Len(logFile) = 3
    /\ logFile[2].msg = "Imported 2 contacts from JSON."
    /\ logFile[3].msg = "Deleted contact: B"
    /\ Contacts = <<>>

\* C5: an update or a delete of a name that no contact bears changes
\* neither the store file nor the log.
C5_NoMatchNoChange ==
    [][ ((Handled("4") \/ Handled("5")) /\ Matches(Trimmed(lastOp'.name)) = {})
        => csvFile' = csvFile /\ logFile' = logFile ]_vars

\* A delete that found nothing in a store that holds a contact.
C5_Witness ==
    /\ lastOp.choice = "5"
    /\ Matches(Trimmed(lastOp.name)) = {}
    /\ Contacts # <<>>
    /\ stdout = <<"Contact not found.">>

\* C6 as claimed: whatever the store (no blank field), an export followed
\* at once by an import leaves the same contacts in the same order.
C6_RoundTrip ==
    [][ (pc = "menu" /\ lastOp.choice = "6" /\ lastOp'.choice = "7"
            /\ NoBlankField(Contacts))
        => After = Contacts ]_vars

\* C6 amended: the same of a store that holds at least one contact (an
\* export of an empty store writes nothing, and the import then reads
\* whatever contacts.json held before).
C6_RoundTripNonEmpty ==
    [][ (pc = "menu" /\ lastOp.choice = "6" /\ lastOp'.choice = "7"
            /\ NoBlankField(Contacts) /\ Contacts # <<>>)
        => After = Contacts ]_vars

\* An import of the file an export wrote, of a store with a name that
\* both CSV and JSON must quote.
C6_Witness ==
    /\ lastOp.choice = "7"
    /\ Len(logFile) >= 2
    /\ startswith(logFile[Len(logFile) - 1].msg, "Exported")
    /\ startswith(LastLine(logFile).msg, "Imported")
    /\ jsonFile.text = json_dump(Contacts)
    /\ \E i \in 1..Len(Contacts) : IsSubstring(",\"", Contacts[i].Name)

\* The document is not a list of objects.
NotListOfObjects(text) ==
    LET doc == json_load(text)
    IN  \/ ~doc.ok
        \/ doc.val.t # "list"
        \/ \E i \in 1..Len(doc.val.kids) : doc.val.kids[i].t # "dict"

\* C7: an import of a document that is not a list of objects leaves the
\* store file as it was and appends one line to the log, an ERROR line.
C7_BadImportLeavesStore ==
    [][ (Handled("7") /\ jsonFile.exists /\ NotListOfObjects(jsonFile.text))
        => /\ csvFile' = csvFile
           /\ Len(logFile') = Len(logFile) + 1
           /\ SubSeq(logFile', 1, Len(logFile)) = logFile
           /\ LastLine(logFile').level = "ERROR" ]_vars

\* A failed import of a list whose first element is an object and whose
\* second is not, into a store that holds a contact.
C7_Witness ==
    /\ lastOp.choice = "7"
    /\ jsonFile = File(DocMixed)
    /\ Contacts # <<>>
    /\ LastLine(logFile).level = "ERROR"

\* C8 as claimed: no stored contact ever has a blank name, phone or email.
C8_NoBlankEver == NoBlankField(Contacts)

\* C8 amended: add, update, delete and export take a store without blank
\* fields to a store without blank fields; import alone stores the fields
\* it reads unvalidated.  (Only a step that changes the store file is
\* looked at: the others leave its contacts as they were.)
C8_NoBlankUnlessImport ==
    [][ (lastOp'.choice # "7" /\ csvFile' # csvFile /\ NoBlankField(Contacts))
        => NoBlankField(After) ]_vars

\* An update that typed a blank phone: the stored phone is not blank.
C8_Witness ==
    /\ lastOp.choice = "4" /\ IsBlank(lastOp.phone)
    /\ stdout[Len(stdout)] = "Contact updated."
    /\ Contacts # <<>>
    /\ NoBlankField(Contacts)

\* C9: the menu loop ends only by the choice "8".
C9_OnlyExitEndsLoop == pc \notin {"start", "menu"} => lastOp.choice = "8"

\* C10: a search prints exactly the contacts whose lowercased name holds
\* the trimmed, lowercased term, in store order (a blank term: all of
\* them), and changes no file.
C10_SearchResult ==
    [][ Handled("3")
        => LET before == Contacts
               term   == lower(Trimmed(lastOp'.name))
               found  == SelectSeq(before, LAMBDA c : IsSubstring(term, lower(c.Name)))
           IN  /\ stdout' = IF found = <<>> THEN <<"No matches.">>
                            ELSE [i \in 1..Len(found) |-> search_line(found[i])]
               /\ (term = "" /\ before # <<>>) => Len(stdout') = Len(before)
               /\ csvFile' = csvFile /\ jsonFile' = jsonFile /\ logFile' = logFile ]_vars

\* A search that prints some of the stored contacts and not the others.
C10_Witness ==
    /\ lastOp.choice = "3" /\ ~IsBlank(lastOp.name)
    /\ stdout # <<"No matches.">>
    /\ Len(stdout) < Len(Contacts)
====
